---- MODULE Spec2Model ----
(***************************************************************************)
(* A model of VimTitleEditPlugin (src/src/main.ts): the keydown filter,   *)
(* the title edit session (focusTitle / the two closures it attaches /    *)
(* cleanupTitleHandlers), returnToEditor and saveTitleValue, together     *)
(* with the host objects the plugin reads and writes: the active          *)
(* MarkdownView, its inline title element, its editor cursor, its file,   *)
(* the focused element and the pending renameFile promises.               *)
(*                                                                         *)
(* Strings the code computes with (title text, base names, paths, notice  *)
(* texts) are sequences of one-character strings or of literal chunks, so *)
(* that trim() and the path template are computed, not assumed.           *)
(***************************************************************************)
EXTENDS Integers, Sequences, FiniteSets, TLC

\* ---------------------------------------------------------------- bounds
MaxLine == 1         \* last line index of a body editor
MaxPending == 1      \* renameFile promises that may be unsettled at once

Views == {1, 2}      \* the MarkdownViews of the workspace; a title element is
                     \* identified with the view that contains it
NoView == 0          \* getActiveViewOfType(MarkdownView) returned null
NoEl == 0            \* currentTitleEl = null
Cols == {0, 1}
Keys == {"k", "j", "Enter", "Escape"}
Modes == {"", "normal", "insert"}
\* what a 'vim-mode-change' event carries: no detail, a detail without a mode,
\* or a detail with a mode string
Details ==
  {[detail |-> FALSE, mode |-> "undefined"]}
    \cup {[detail |-> TRUE, mode |-> m] : m \in Modes \cup {"undefined"}}
Errors == {<<"E">>}  \* the reason a rejected renameFile carries
SessionIds == 1..(MaxPending + 1)  \* one open session beside the awaited ones

\* the texts the user leaves in a title: empty, blank, the name "a" with a
\* leading blank, the name "b" bare and with blanks around it
Texts == {<<>>, <<" ">>, <<" ", "a">>, <<"b">>, <<" ", "b", " ">>}
Positions == {p \in [line : 0..MaxLine, ch : Cols] : p.line = 0 \/ p.ch = 0}

\* ------------------------------------------------------- String.trim()
IsSpace(c) == c = " "

RECURSIVE TrimStart(_)
TrimStart(s) ==
  IF s = <<>> THEN s
  ELSE IF IsSpace(Head(s)) THEN TrimStart(Tail(s)) ELSE s

RECURSIVE TrimEnd(_)
TrimEnd(s) ==
  IF s = <<>> THEN s
  ELSE IF IsSpace(s[Len(s)]) THEN TrimEnd(SubSeq(s, 1, Len(s) - 1)) ELSE s

Trim(s) == TrimEnd(TrimStart(s))

\* titleEl.textContent?.trim() || ''
ReadTitle(text) ==
  LET t == Trim(text) IN IF t = <<>> THEN <<>> ELSE t

\* ------------------------------------------------------------ the state
VARIABLES
  lifecycle,          \* "constructed", "loaded", "unloaded"
  keydownRegistered,  \* the capture-phase document keydown listener is attached
  vimModeRegistered,  \* the 'vim-mode-change' listener is attached
  inTitleMode,        \* plugin fields, main.ts 6-11
  vimModeClass,
  editedTitle,
  titleKeyHandler,
  titleInputHandler,
  currentTitleEl,
  listeners,          \* listeners[el]: the listeners attached to title element el
  activeView,         \* what getActiveViewOfType(MarkdownView) returns
  titlePresent,       \* titlePresent[v]: v's container holds an .inline-title
  titleText,          \* titleText[el]: textContent of the title element
  hasFile,            \* hasFile[v]: view.file is not null
  parentPath,         \* parentPath[v]: view.file.parent.path
  basename,           \* basename[v]: view.file.basename
  cursor,             \* cursor[v]: view.editor.getCursor()
  focus,              \* document.activeElement: [kind, v]
  pending,            \* renameFile promises that have not settled
  views,              \* the views the workspace holds (fixed by Init)
  trace               \* the last event and the calls made while it was handled

vars == <<lifecycle, keydownRegistered, vimModeRegistered, inTitleMode,
          vimModeClass, editedTitle, titleKeyHandler, titleInputHandler,
          currentTitleEl, listeners, activeView, titlePresent, titleText,
          hasFile, parentPath, basename, cursor, focus, pending, views, trace>>

hostVars ==
  <<activeView, titlePresent, titleText, hasFile, parentPath, basename, views>>
lifeVars == <<lifecycle, keydownRegistered, vimModeRegistered>>

NULL == [sid |-> 0, el |-> NoEl]       \* a handler field holding null
Body(v) == [kind |-> "body", v |-> v]   \* focus inside v's .cm-editor
Title(v) == [kind |-> "title", v |-> v] \* focus on v's .inline-title
Elsewhere == [kind |-> "other", v |-> NoView]

\* --------------------------------------- the part of the state methods write
Start ==
  [inTitleMode |-> inTitleMode, editedTitle |-> editedTitle,
   titleKeyHandler |-> titleKeyHandler, titleInputHandler |-> titleInputHandler,
   currentTitleEl |-> currentTitleEl, listeners |-> listeners,
   focus |-> focus, cursor |-> cursor, pending |-> pending, trace |-> <<>>]

\* the state when the handler of event ev (on view or element v, with detail s)
\* starts
On(ev, v, s) == [Start EXCEPT !.trace = <<[call |-> ev, v |-> v, s |-> s]>>]

Commit(w) ==
  /\ inTitleMode' = w.inTitleMode
  /\ editedTitle' = w.editedTitle
  /\ titleKeyHandler' = w.titleKeyHandler
  /\ titleInputHandler' = w.titleInputHandler
  /\ currentTitleEl' = w.currentTitleEl
  /\ listeners' = w.listeners
  /\ focus' = w.focus
  /\ cursor' = w.cursor
  /\ pending' = w.pending
  /\ trace' = w.trace

Log(w, call, v, s) ==
  [w EXCEPT !.trace = Append(@, [call |-> call, v |-> v, s |-> s])]

Notice(w, msg) == Log(w, "Notice", NoView, msg)

Calls(tr, call) == {i \in 1..Len(tr) : tr[i].call = call}
Called(tr, call) == Calls(tr, call) # {}

\* ----------------------------------------------- EventTarget listener lists
Listener(type, h, capture) == [type |-> type, h |-> h, capture |-> capture]

addEventListener(w, el, type, h, capture) ==
  [Log(w, "addEventListener", el, <<type>>)
     EXCEPT !.listeners[el] = @ \cup {Listener(type, h, capture)}]

removeEventListener(w, el, type, h, capture) ==
  [Log(w, "removeEventListener", el, <<type>>)
     EXCEPT !.listeners[el] = @ \ {Listener(type, h, capture)}]

\* handler identities in use: attached, stored in a field, or awaited
UsedIds(w) ==
  {l.h.sid : l \in UNION {w.listeners[v] : v \in Views}}
    \cup {w.titleKeyHandler.sid, w.titleInputHandler.sid}
    \cup {r.sid : r \in w.pending}

\* the identity of the closures a focusTitle call creates; 0 when the pool
\* SessionIds is exhausted (such a step is not taken, see Bounded)
NewId(w) ==
  LET free == SessionIds \ UsedIds(w) IN
  IF free = {} THEN 0 ELSE CHOOSE i \in free : \A j \in free : i <= j

Bounded(w) ==
  /\ \A v \in Views : \A l \in w.listeners[v] : l.h.sid # 0
  /\ Cardinality(w.pending) <= MaxPending

\* ------------------------------------------------------------ the methods

\* a plausible slip: the keydown listener is removed without the capture flag
\* it was added with, which removes nothing
cleanupTitleHandlers_wrongCapture(w) ==
  LET w1 == IF w.currentTitleEl # NoEl /\ w.titleKeyHandler # NULL
            THEN removeEventListener(w, w.currentTitleEl, "keydown",
                                     w.titleKeyHandler, FALSE)
            ELSE w
      w2 == IF w1.currentTitleEl # NoEl /\ w1.titleInputHandler # NULL
            THEN removeEventListener(w1, w1.currentTitleEl, "input",
                                     w1.titleInputHandler, FALSE)
            ELSE w1
  IN [Log(w2, "cleanupTitleHandlers", NoView, <<>>)
        EXCEPT !.titleKeyHandler = NULL, !.titleInputHandler = NULL,
               !.currentTitleEl = NoEl, !.inTitleMode = FALSE]

\* main.ts 143-154
cleanupTitleHandlers(w) ==
  LET w1 == IF w.currentTitleEl # NoEl /\ w.titleKeyHandler # NULL
            THEN removeEventListener(w, w.currentTitleEl, "keydown",
                                     w.titleKeyHandler, TRUE)
            ELSE w
      w2 == IF w1.currentTitleEl # NoEl /\ w1.titleInputHandler # NULL
            THEN removeEventListener(w1, w1.currentTitleEl, "input",
                                     w1.titleInputHandler, FALSE)
            ELSE w1
  IN [Log(w2, "cleanupTitleHandlers", NoView, <<>>)
        EXCEPT !.titleKeyHandler = NULL, !.titleInputHandler = NULL,
               !.currentTitleEl = NoEl, !.inTitleMode = FALSE]

\* a plausible slip: the cursor is left where it was
returnToEditor_keepCursor(w) ==
  LET w0 == Log(w, "returnToEditor", activeView, <<>>) IN
  IF activeView = NoView THEN w0
  ELSE [w0 EXCEPT !.focus = Body(activeView), !.inTitleMode = FALSE]

\* main.ts 156-163
returnToEditor(w) ==
  LET w0 == Log(w, "returnToEditor", activeView, <<>>) IN
  IF activeView = NoView THEN w0
  ELSE [w0 EXCEPT !.focus = Body(activeView),
                  !.cursor[activeView] = [line |-> 0, ch |-> 0],
                  !.inTitleMode = FALSE]

\* main.ts 186-187: view.file.parent?.path || '' and the path template
NewPath(v, newTitle) ==
  LET folder == IF parentPath[v] = <<>> THEN <<>> ELSE parentPath[v] IN
  IF folder # <<>> THEN folder \o <<"/">> \o newTitle \o <<".md">>
  ELSE newTitle \o <<".md">>

\* a plausible slip: the comparison with the current base name is missing
saveTitleValue_noCompare(w, sid, newTitle) ==
  LET w0 == Log(w, "saveTitleValue", activeView, newTitle) IN
  IF activeView = NoView \/ ~hasFile[activeView] THEN w0
  ELSE IF newTitle = <<>> THEN Notice(w0, <<"Title cannot be empty">>)
  ELSE LET newPath == NewPath(activeView, newTitle)
           w1 == Log(w0, "renameFile", activeView, newPath)
       IN [w1 EXCEPT !.pending = @ \cup
             {[sid |-> sid, file |-> activeView, path |-> newPath,
               newTitle |-> newTitle]}]

\* a plausible slip: the empty check is missing
saveTitleValue_noEmptyCheck(w, sid, newTitle) ==
  LET w0 == Log(w, "saveTitleValue", activeView, newTitle) IN
  IF activeView = NoView \/ ~hasFile[activeView] THEN w0
  ELSE IF newTitle = basename[activeView] THEN w0
  ELSE LET newPath == NewPath(activeView, newTitle)
           w1 == Log(w0, "renameFile", activeView, newPath)
       IN [w1 EXCEPT !.pending = @ \cup
             {[sid |-> sid, file |-> activeView, path |-> newPath,
               newTitle |-> newTitle]}]

\* a plausible slip: the separator is left out of the path
saveTitleValue_noSeparator(w, sid, newTitle) ==
  LET w0 == Log(w, "saveTitleValue", activeView, newTitle) IN
  IF activeView = NoView \/ ~hasFile[activeView] THEN w0
  ELSE IF newTitle = <<>> THEN Notice(w0, <<"Title cannot be empty">>)
  ELSE IF newTitle = basename[activeView] THEN w0
  ELSE LET newPath == parentPath[activeView] \o newTitle \o <<".md">>
           w1 == Log(w0, "renameFile", activeView, newPath)
       IN [w1 EXCEPT !.pending = @ \cup
             {[sid |-> sid, file |-> activeView, path |-> newPath,
               newTitle |-> newTitle]}]

\* main.ts 165-190, up to the await: the part of saveTitleValue that runs
\* inside the caller's event handler.  sid names the session whose closure
\* made the call; the promise of renameFile is kept in pending.
saveTitleValue(w, sid, newTitle) ==
  LET w0 == Log(w, "saveTitleValue", activeView, newTitle) IN
  IF activeView = NoView \/ ~hasFile[activeView] THEN w0
  ELSE IF newTitle = <<>> THEN Notice(w0, <<"Title cannot be empty">>)
  ELSE IF newTitle = basename[activeView] THEN w0
  ELSE LET newPath == NewPath(activeView, newTitle)
           w1 == Log(w0, "renameFile", activeView, newPath)
       IN [w1 EXCEPT !.pending = @ \cup
             {[sid |-> sid, file |-> activeView, path |-> newPath,
               newTitle |-> newTitle]}]

\* a plausible slip: the handlers of the earlier session are not cleaned up
focusTitle_noCleanup(w) ==
  LET w0 == Log(w, "focusTitle", activeView, <<>>) IN
  IF activeView = NoView THEN w0
  ELSE IF ~titlePresent[activeView]
  THEN Notice(w0, <<"Inline title not found. Enable it in Settings > Editor > Show inline title">>)
  ELSE LET titleEl == activeView
           h == [sid |-> NewId(w0), el |-> titleEl]
           w2 == [w0 EXCEPT !.currentTitleEl = titleEl,
                            !.editedTitle = ReadTitle(titleText[titleEl]),
                            !.inTitleMode = TRUE,
                            !.titleInputHandler = h,
                            !.titleKeyHandler = h]
           w3 == addEventListener(w2, titleEl, "input", h, FALSE)
           w4 == addEventListener(w3, titleEl, "keydown", h, TRUE)
       IN [w4 EXCEPT !.focus = Title(titleEl)]

\* main.ts 82-141.  The two closures of a call share the identity h: its sid
\* tells the calls apart, its el is the titleEl the closures captured.
focusTitle(w) ==
  LET w0 == Log(w, "focusTitle", activeView, <<>>) IN
  IF activeView = NoView THEN w0
  ELSE IF ~titlePresent[activeView]
  THEN Notice(w0, <<"Inline title not found. Enable it in Settings > Editor > Show inline title">>)
  ELSE LET titleEl == activeView
           w1 == cleanupTitleHandlers(w0)
           h == [sid |-> NewId(w1), el |-> titleEl]
           w2 == [w1 EXCEPT !.currentTitleEl = titleEl,
                            !.editedTitle = ReadTitle(titleText[titleEl]),
                            !.inTitleMode = TRUE,
                            !.titleInputHandler = h,
                            !.titleKeyHandler = h]
           w3 == addEventListener(w2, titleEl, "input", h, FALSE)
           w4 == addEventListener(w3, titleEl, "keydown", h, TRUE)
       IN [w4 EXCEPT !.focus = Title(titleEl)]

\* ------------------------------------------------- the handlers and closures

\* main.ts 76-77
Suppress(w) ==
  Log(Log(w, "preventDefault", NoView, <<>>), "stopPropagation", NoView, <<>>)

\* a plausible slip: the cursor line is not checked
handleEditorKeydown_anyLine(w, evt) ==
  IF evt.key # "k" THEN w
  ELSE IF evt.target.kind # "body" THEN w
  ELSE IF ~(evt.hasFatCursor \/ evt.hasVimCursor \/ vimModeClass = "normal")
  THEN w
  ELSE IF activeView = NoView THEN w
  ELSE focusTitle(Suppress(w))

\* a plausible slip: the key is handed to the title without being suppressed
handleEditorKeydown_noSuppress(w, evt) ==
  IF evt.key # "k" THEN w
  ELSE IF evt.target.kind # "body" THEN w
  ELSE IF ~(evt.hasFatCursor \/ evt.hasVimCursor \/ vimModeClass = "normal")
  THEN w
  ELSE IF activeView = NoView THEN w
  ELSE IF w.cursor[activeView].line = 0 THEN focusTitle(w)
  ELSE w

\* main.ts 42-80.  evt.target.kind = "body" says target.closest('.cm-editor')
\* found an editor; hasFatCursor and hasVimCursor are what that editor's
\* querySelector calls return.
handleEditorKeydown(w, evt) ==
  IF evt.key # "k" THEN w
  ELSE IF evt.target.kind # "body" THEN w
  ELSE LET isVimNormal ==
             evt.hasFatCursor \/ evt.hasVimCursor \/ vimModeClass = "normal"
       IN IF ~isVimNormal THEN w
          ELSE IF activeView = NoView THEN w
          ELSE IF w.cursor[activeView].line = 0
          THEN focusTitle(Suppress(w))
          ELSE w

\* the keydown closure of session h is called (main.ts 116)
Entered(w, h) == Log(w, "titleKeyHandler", h.el, <<>>)

\* a plausible slip: Escape leaves without saving (the older revision's way)
TitleKeyHandler_escapeDiscards(w, h, key) ==
  IF key = "Escape"
  THEN returnToEditor(cleanupTitleHandlers(Suppress(Entered(w, h))))
  ELSE IF key = "Enter"
  THEN LET w1 == Suppress(Entered(w, h))
           w2 == saveTitleValue(w1, h.sid, w1.editedTitle)
           w3 == cleanupTitleHandlers(w2)
       IN returnToEditor(w3)
  ELSE Entered(w, h)

\* a plausible slip: the session is kept open while a rename is awaited
TitleKeyHandler_keepOpenOnRename(w, h, key) ==
  IF key = "Escape" \/ key = "Enter"
  THEN LET w1 == Suppress(Entered(w, h))
           w2 == saveTitleValue(w1, h.sid, w1.editedTitle)
       IN IF Called(w2.trace, "renameFile") THEN w2
          ELSE returnToEditor(cleanupTitleHandlers(w2))
  ELSE Entered(w, h)

\* a plausible slip: "j" leaves the title as it did in the older handler
TitleKeyHandler_jLeaves(w, h, key) ==
  IF key = "j"
  THEN returnToEditor(cleanupTitleHandlers(Suppress(Entered(w, h))))
  ELSE IF key = "Escape" \/ key = "Enter"
  THEN LET w1 == Suppress(Entered(w, h))
           w2 == saveTitleValue(w1, h.sid, w1.editedTitle)
           w3 == cleanupTitleHandlers(w2)
       IN returnToEditor(w3)
  ELSE Entered(w, h)

\* a plausible slip: the terminal keys return to the body editor without
\* tearing the session down
TitleKeyHandler_noCleanup(w, h, key) ==
  IF key = "Escape" \/ key = "Enter"
  THEN LET w1 == Suppress(Entered(w, h))
           w2 == saveTitleValue(w1, h.sid, w1.editedTitle)
       IN returnToEditor(w2)
  ELSE Entered(w, h)

\* main.ts 115-125: the keydown closure of session h
TitleKeyHandler(w, h, key) ==
  IF key = "Escape" \/ key = "Enter"
  THEN LET w1 == Suppress(Entered(w, h))
           w2 == saveTitleValue(w1, h.sid, w1.editedTitle)
           w3 == cleanupTitleHandlers(w2)
       IN returnToEditor(w3)
  ELSE Entered(w, h)

\* main.ts 110-113: the input closure of session h reads the text of the
\* title element it captured
TitleInputHandler(w, h, texts) ==
  [Log(w, "titleInputHandler", h.el, <<>>)
     EXCEPT !.editedTitle = ReadTitle(texts[h.el])]

\* The listeners of one type on element el, called one after the other; a
\* listener that an earlier one removed is not called.
RECURSIVE RunKeydownListeners(_, _, _, _)
RunKeydownListeners(w, el, todo, key) ==
  IF todo = {} THEN w
  ELSE LET l == CHOOSE x \in todo : \A y \in todo : x.h.sid <= y.h.sid
           w1 == IF l \in w.listeners[el] THEN TitleKeyHandler(w, l.h, key)
                 ELSE w
       IN RunKeydownListeners(w1, el, todo \ {l}, key)

RECURSIVE RunInputListeners(_, _, _, _)
RunInputListeners(w, el, todo, texts) ==
  IF todo = {} THEN w
  ELSE LET l == CHOOSE x \in todo : \A y \in todo : x.h.sid <= y.h.sid
           w1 == IF l \in w.listeners[el] THEN TitleInputHandler(w, l.h, texts)
                 ELSE w
       IN RunInputListeners(w1, el, todo \ {l}, texts)

OfType(ls, type) == {l \in ls : l.type = type}

\* ------------------------------------------------------------------ events
Flag(b, name) == IF b THEN name ELSE "-"

KeyEvent(key, target, fat, vim) ==
  [key |-> key, target |-> target, hasFatCursor |-> fat, hasVimCursor |-> vim]

\* the state when the dispatch of a keydown starts
OnKeydown(evt) ==
  On("keydown", evt.target.v,
     <<evt.key, evt.target.kind, Flag(evt.hasFatCursor, "fat"),
       Flag(evt.hasVimCursor, "vim")>>)

\* main.ts 6-11 and a workspace showing one file "a" per view, the first view
\* active and focused
Constructed ==
  /\ lifecycle = "constructed"
  /\ keydownRegistered = FALSE
  /\ vimModeRegistered = FALSE
  /\ inTitleMode = FALSE
  /\ vimModeClass = ""
  /\ editedTitle = <<>>
  /\ titleKeyHandler = NULL
  /\ titleInputHandler = NULL
  /\ currentTitleEl = NoEl
  /\ listeners = [v \in Views |-> {}]
  /\ activeView = 1
  /\ titlePresent = [v \in Views |-> TRUE]
  /\ basename = [v \in Views |-> <<"a">>]
  /\ titleText = basename
  /\ cursor = [v \in Views |-> [line |-> 0, ch |-> 0]]
  /\ focus = Body(1)
  /\ pending = {}
  /\ trace = <<>>

\* one view: it shows a file in the folder "d", or a file at a root whose path
\* is '', or no file
Init ==
  /\ Constructed
  /\ views = {1}
  /\ hasFile \in {[v \in Views |-> b] : b \in BOOLEAN}
  /\ parentPath \in {[v \in Views |-> p] : p \in {<<>>, <<"d">>}}
  /\ ~hasFile[1] => parentPath[1] = <<>>

\* one view, its file in the folder "d"
InitFilter ==
  /\ Constructed
  /\ views = {1}
  /\ hasFile = [v \in Views |-> TRUE]
  /\ parentPath = [v \in Views |-> <<"d">>]

\* two views, the first one's file in the folder "d", the second one's at the
\* root
InitViews ==
  /\ Constructed
  /\ views = Views
  /\ hasFile = [v \in Views |-> TRUE]
  /\ parentPath = [v \in Views |-> IF v = 1 THEN <<"d">> ELSE <<>>]

\* main.ts 13-36
onload ==
  /\ lifecycle = "constructed"
  /\ lifecycle' = "loaded"
  /\ keydownRegistered' = TRUE
  /\ vimModeRegistered' = TRUE
  /\ trace' = <<[call |-> "onload", v |-> NoView, s |-> <<>>]>>
  /\ UNCHANGED <<inTitleMode, vimModeClass, editedTitle, titleKeyHandler,
                 titleInputHandler, currentTitleEl, listeners, focus, cursor,
                 pending>>
  /\ UNCHANGED hostVars

\* main.ts 38-40: onunload itself detaches nothing; the host then drops what
\* was registered with it: the document keydown listener of registerDomEvent
\* (line 17) and the callback of register (line 26), which removes the
\* 'vim-mode-change' listener.  The fields and the listeners focusTitle
\* attached with addEventListener (lines 128-129) are not touched.
onunload ==
  /\ lifecycle = "loaded"
  /\ lifecycle' = "unloaded"
  /\ keydownRegistered' = FALSE
  /\ vimModeRegistered' = FALSE
  /\ trace' = <<[call |-> "onunload", v |-> NoView, s |-> <<>>]>>
  /\ UNCHANGED <<inTitleMode, vimModeClass, editedTitle, titleKeyHandler,
                 titleInputHandler, currentTitleEl, listeners, focus, cursor,
                 pending>>
  /\ UNCHANGED hostVars

\* main.ts 22: customEvt.detail?.mode || '' -- a missing detail, a missing
\* mode and the empty string all give ''
ModeOf(d) ==
  IF ~d.detail THEN ""
  ELSE IF d.mode = "undefined" \/ d.mode = "" THEN "" ELSE d.mode

\* a plausible slip: the mode is stored as it comes, without the fallback
vimModeHandler_raw(d) ==
  /\ vimModeRegistered
  /\ vimModeClass' = d.mode
  /\ trace' = <<[call |-> "vim-mode-change", v |-> NoView,
                 s |-> <<Flag(d.detail, "detail"), d.mode>>]>>
  /\ UNCHANGED <<inTitleMode, editedTitle, titleKeyHandler, titleInputHandler,
                 currentTitleEl, listeners, focus, cursor, pending>>
  /\ UNCHANGED hostVars
  /\ UNCHANGED lifeVars

\* main.ts 20-24: a 'vim-mode-change' event with detail d reaches the
\* listener of line 25
vimModeHandler(d) ==
  /\ vimModeRegistered
  /\ vimModeClass' = ModeOf(d)
  /\ trace' = <<[call |-> "vim-mode-change", v |-> NoView,
                 s |-> <<Flag(d.detail, "detail"), d.mode>>]>>
  /\ UNCHANGED <<inTitleMode, editedTitle, titleKeyHandler, titleInputHandler,
                 currentTitleEl, listeners, focus, cursor, pending>>
  /\ UNCHANGED hostVars
  /\ UNCHANGED lifeVars

\* the document's capture-phase listener (main.ts 17) sees a keydown first
Filtered(evt) ==
  IF keydownRegistered THEN handleEditorKeydown(OnKeydown(evt), evt)
  ELSE OnKeydown(evt)

Stopped(w) == Called(w.trace, "stopPropagation")

\* a keydown while the focus is inside a body editor: the filter, and then,
\* unless the filter stopped the event, the editor, which may move its cursor
KeydownInBody(key, fat, vim, pos) ==
  /\ focus.kind = "body"
  /\ (fat \/ vim) => key = "k"
  /\ LET evt == KeyEvent(key, focus, fat, vim)
         w1 == Filtered(evt)
         w2 == IF Stopped(w1) THEN w1
               ELSE [Log(w1, "editor.keydown", focus.v, <<>>)
                       EXCEPT !.cursor[focus.v] = pos]
     IN /\ Stopped(w1) => pos = cursor[focus.v]
        /\ Bounded(w2)
        /\ Commit(w2)
  /\ UNCHANGED <<vimModeClass>>
  /\ UNCHANGED hostVars
  /\ UNCHANGED lifeVars

\* a keydown while the focus is on an inline title: the filter, and then,
\* unless the filter stopped the event, the title's own keydown listeners
DispatchInTitle(key) ==
  LET evt == KeyEvent(key, focus, FALSE, FALSE)
      w1 == Filtered(evt)
  IN IF Stopped(w1) THEN w1
     ELSE RunKeydownListeners(w1, focus.v,
            OfType(w1.listeners[focus.v], "keydown"), key)

KeydownInTitle(key) ==
  /\ focus.kind = "title"
  /\ LET w2 == DispatchInTitle(key)
     IN /\ Bounded(w2)
        /\ Commit(w2)
  /\ UNCHANGED <<vimModeClass>>
  /\ UNCHANGED hostVars
  /\ UNCHANGED lifeVars

\* a keydown while the focus is anywhere else
KeydownElsewhere(key) ==
  /\ focus.kind = "other"
  /\ LET evt == KeyEvent(key, focus, FALSE, FALSE)
         w1 == Filtered(evt)
     IN /\ Bounded(w1)
        /\ Commit(w1)
  /\ UNCHANGED <<vimModeClass>>
  /\ UNCHANGED hostVars
  /\ UNCHANGED lifeVars

\* main.ts 29-33: the command 'Focus inline title'
FocusTitleCommand ==
  /\ lifecycle = "loaded"
  /\ LET w1 == focusTitle(On("command", NoView, <<>>))
     IN /\ Bounded(w1)
        /\ Commit(w1)
  /\ UNCHANGED <<vimModeClass>>
  /\ UNCHANGED hostVars
  /\ UNCHANGED lifeVars

\* the user changes the text of the focused title: an input event on it
TitleInput(text) ==
  /\ focus.kind = "title"
  /\ text # titleText[focus.v]
  /\ titleText' = [titleText EXCEPT ![focus.v] = text]
  /\ LET w1 == RunInputListeners(On("input", focus.v, <<>>), focus.v,
                  OfType(listeners[focus.v], "input"), titleText')
     IN Commit(w1)
  /\ UNCHANGED <<vimModeClass, activeView, titlePresent, hasFile, parentPath,
                 basename, views>>
  /\ UNCHANGED lifeVars

\* the base name a path names: what follows the last "/" without the extension
RECURSIVE AfterLastSlash(_)
AfterLastSlash(p) ==
  IF \E i \in 1..Len(p) : p[i] = "/"
  THEN AfterLastSlash(Tail(p)) ELSE p

BaseNameOf(path) ==
  LET n == AfterLastSlash(path) IN
  IF n # <<>> /\ n[Len(n)] = ".md" THEN SubSeq(n, 1, Len(n) - 1) ELSE n

\* main.ts 189-191: the awaited renameFile resolves; the host has renamed
\* the file to the path it was given
RenameResolved(r) ==
  /\ r \in pending
  /\ pending' = pending \ {r}
  /\ basename' = [basename EXCEPT ![r.file] = BaseNameOf(r.path)]
  /\ trace' = <<[call |-> "renameFile.resolved", v |-> r.file, s |-> r.path],
                [call |-> "Notice", v |-> NoView,
                 s |-> <<"Renamed to: ">> \o r.newTitle]>>
  /\ UNCHANGED <<inTitleMode, vimModeClass, editedTitle, titleKeyHandler,
                 titleInputHandler, currentTitleEl, listeners, focus, cursor>>
  /\ UNCHANGED <<activeView, titlePresent, titleText, hasFile, parentPath, views>>
  /\ UNCHANGED lifeVars

\* a plausible slip: a rejected rename is requested again
RenameRejected_retry(r, e) ==
  /\ r \in pending
  /\ pending' = pending
  /\ trace' = <<[call |-> "renameFile.rejected", v |-> r.file, s |-> r.path],
                [call |-> "Notice", v |-> NoView,
                 s |-> <<"Failed to rename: ">> \o e],
                [call |-> "renameFile", v |-> r.file, s |-> r.path]>>
  /\ UNCHANGED <<inTitleMode, vimModeClass, editedTitle, titleKeyHandler,
                 titleInputHandler, currentTitleEl, listeners, focus, cursor>>
  /\ UNCHANGED hostVars
  /\ UNCHANGED lifeVars

\* main.ts 192-194: the awaited renameFile rejects with error e; the file is
\* as it was
RenameRejected(r, e) ==
  /\ r \in pending
  /\ pending' = pending \ {r}
  /\ trace' = <<[call |-> "renameFile.rejected", v |-> r.file, s |-> r.path],
                [call |-> "Notice", v |-> NoView,
                 s |-> <<"Failed to rename: ">> \o e]>>
  /\ UNCHANGED <<inTitleMode, vimModeClass, editedTitle, titleKeyHandler,
                 titleInputHandler, currentTitleEl, listeners, focus, cursor>>
  /\ UNCHANGED hostVars
  /\ UNCHANGED lifeVars

\* ------------------------------------------------ what the host and user do
HostStep ==
  /\ trace' = <<>>
  /\ UNCHANGED <<inTitleMode, vimModeClass, editedTitle, titleKeyHandler,
                 titleInputHandler, currentTitleEl, listeners, cursor, pending>>
  /\ UNCHANGED lifeVars

\* another view (or none) becomes the active view
SetActiveView(v) ==
  /\ v \in views \cup {NoView}
  /\ v # activeView
  /\ activeView' = v
  /\ HostStep
  /\ UNCHANGED <<titlePresent, titleText, hasFile, parentPath, basename, views,
                 focus>>

\* 'Show inline title' (Settings > Editor) is switched: the inline titles
\* leave or enter the views
ToggleInlineTitle ==
  /\ titlePresent' = [v \in Views |-> ~titlePresent[v]]
  /\ focus' = IF focus.kind = "title" THEN Elsewhere ELSE focus
  /\ HostStep
  /\ UNCHANGED <<activeView, titleText, hasFile, parentPath, basename, views>>

\* the user moves the focus with the pointer
MoveFocus(f) ==
  /\ f # focus
  /\ f.v \in views \cup {NoView}
  /\ f.kind = "title" => titlePresent[f.v]
  /\ focus' = f
  /\ HostStep
  /\ UNCHANGED hostVars

FocusTargets ==
  {Body(v) : v \in Views} \cup {Title(v) : v \in Views} \cup {Elsewhere}

Loaded == lifecycle = "loaded"

\* The title edit session and the renames it requests, in a workspace of one
\* view; the tracked vim mode stays as constructed and the filter is passed on
\* the cursor cues.
Next ==
  \/ onload
  \/ Loaded /\ \E key \in Keys, fat, vim \in BOOLEAN, pos \in Positions :
       KeydownInBody(key, fat, vim, pos)
  \/ Loaded /\ \E key \in Keys : KeydownInTitle(key)
  \/ Loaded /\ \E key \in Keys : KeydownElsewhere(key)
  \/ FocusTitleCommand
  \/ Loaded /\ \E text \in Texts : TitleInput(text)
  \/ \E r \in pending : RenameResolved(r)
  \/ \E r \in pending, e \in Errors : RenameRejected(r, e)
  \/ Loaded /\ \E v \in Views \cup {NoView} : SetActiveView(v)
  \/ Loaded /\ ToggleInlineTitle
  \/ Loaded /\ \E f \in FocusTargets : MoveFocus(f)

Spec == Init /\ [][Next]_vars

\* The key filter with the tracked vim mode, in a workspace of one view whose
\* title text the user leaves alone.
NextFilter ==
  \/ onload
  \/ Loaded /\ \E d \in Details : vimModeHandler(d)
  \/ Loaded /\ \E key \in Keys, fat, vim \in BOOLEAN, pos \in Positions :
       KeydownInBody(key, fat, vim, pos)
  \/ Loaded /\ \E key \in Keys : KeydownInTitle(key)
  \/ Loaded /\ \E key \in Keys : KeydownElsewhere(key)
  \/ FocusTitleCommand
  \/ Loaded /\ \E v \in Views \cup {NoView} : SetActiveView(v)
  \/ Loaded /\ ToggleInlineTitle
  \/ Loaded /\ \E f \in FocusTargets : MoveFocus(f)

SpecFilter == InitFilter /\ [][NextFilter]_vars

\* Sessions on the titles of two views; the body cursors stay where they are
\* and the user types the one name "b".
NextViews ==
  \/ onload
  \/ Loaded /\ \E key \in Keys, fat, vim \in BOOLEAN :
       KeydownInBody(key, fat, vim, cursor[focus.v])
  \/ Loaded /\ \E key \in Keys : KeydownInTitle(key)
  \/ Loaded /\ \E key \in Keys : KeydownElsewhere(key)
  \/ FocusTitleCommand
  \/ Loaded /\ TitleInput(<<"b">>)
  \/ \E r \in pending : RenameResolved(r)
  \/ \E r \in pending, e \in Errors : RenameRejected(r, e)
  \/ Loaded /\ \E v \in Views \cup {NoView} : SetActiveView(v)
  \/ Loaded /\ ToggleInlineTitle
  \/ Loaded /\ \E f \in FocusTargets : MoveFocus(f)

SpecViews == InitViews /\ [][NextViews]_vars

\* Title edits that overlap the renames they request: one view, always
\* active, its file in the folder "d"; every rename the host is asked for
\* succeeds, whenever the host gets to it.
NextOverlap ==
  \/ onload
  \/ Loaded /\ \E key \in Keys, fat, vim \in BOOLEAN :
       KeydownInBody(key, fat, vim, cursor[focus.v])
  \/ Loaded /\ \E key \in Keys : KeydownInTitle(key)
  \/ Loaded /\ \E text \in Texts : TitleInput(text)
  \/ \E r \in pending : RenameResolved(r)

SpecOverlap == InitFilter /\ [][NextOverlap]_vars

Started == lifecycle # "constructed"

\* Loading and unloading the plugin around a title edit session, in a
\* workspace of one view: keys and input go on reaching the elements after
\* the plugin was unloaded.
NextUnload ==
  \/ onload
  \/ onunload
  \/ Started /\ \E key \in Keys, fat, vim \in BOOLEAN :
       KeydownInBody(key, fat, vim, cursor[focus.v])
  \/ Started /\ \E key \in Keys : KeydownInTitle(key)
  \/ FocusTitleCommand
  \/ Started /\ \E text \in Texts : TitleInput(text)
  \/ \E r \in pending : RenameResolved(r)

SpecUnload == InitFilter /\ [][NextUnload]_vars

\* ------------------------------------------------------------------ claims
\* the listeners attached to any title element, each with its element
Attached ==
  UNION {{[el |-> v, l |-> l] : l \in listeners[v]} : v \in Views}

\* the sessions (focusTitle calls) that have a listener attached
AttachedSessions == {a.l.h.sid : a \in Attached}

\* the event the trace tr begins with
EventOf(tr) ==
  IF tr = <<>> THEN [call |-> "", v |-> NoView, s |-> <<>>] ELSE tr[1]

IsKeydown(tr, key, kind) ==
  /\ EventOf(tr).call = "keydown"
  /\ EventOf(tr).s[1] = key
  /\ EventOf(tr).s[2] = kind

\* the title surfaces the focusTitle calls of trace tr found
Targeted(tr) ==
  {tr[i].v : i \in {j \in Calls(tr, "focusTitle") :
                      tr[j].v # NoView /\ titlePresent[tr[j].v]}}

\* C1, in every state: the attached listeners belong to at most one session;
\* an open session has exactly one input listener and one capture keydown
\* listener, its own, both on its surface, and nothing is attached elsewhere;
\* a begin() that found a title surface leaves the session open on it
OneSession ==
  /\ Cardinality(AttachedSessions) <= 1
  /\ inTitleMode =>
       /\ currentTitleEl \in Views
       /\ titleKeyHandler # NULL
       /\ titleInputHandler = titleKeyHandler
       /\ Attached =
            {[el |-> currentTitleEl,
              l |-> Listener("input", titleInputHandler, FALSE)],
             [el |-> currentTitleEl,
              l |-> Listener("keydown", titleKeyHandler, TRUE)]}
  /\ \A v \in Targeted(trace) : inTitleMode /\ currentTitleEl = v

\* C1, in every step: the surface of the session changes only by a begin()
\* that targets the new surface or by a teardown, so that an open session is
\* on the most recently targeted surface
SurfaceFollowsBegin ==
  currentTitleEl' # currentTitleEl =>
    \/ currentTitleEl' \in Targeted(trace')
    \/ currentTitleEl' = NoEl /\ Called(trace', "cleanupTitleHandlers")

\* C1: after any sequence of begin() calls at most one session is open, with
\* one input and one keydown listener on the most recently targeted title
\* surface and no listener of an earlier session left on any surface
C1_AtMostOneSession == []OneSession /\ [][SurfaceFollowsBegin]_vars

\* C1 witness: a begin() on the title of view 2 has torn down the session that
\* was open on the title of view 1
C1_Witness ==
  /\ inTitleMode
  /\ currentTitleEl = 2
  /\ \E i \in Calls(trace, "removeEventListener") : trace[i].v = 1
  /\ \E i \in Calls(trace, "addEventListener") : trace[i].v = 2

\* the calls of trace tr that the key filter made: those before a title
\* closure or the body editor got the event
RECURSIVE FilterCalls(_)
FilterCalls(tr) ==
  IF tr = <<>> THEN <<>>
  ELSE IF Head(tr).call \in {"titleKeyHandler", "editor.keydown"} THEN <<>>
  ELSE <<Head(tr).call>> \o FilterCalls(Tail(tr))

\* the filter's mode test and line test on the state before the event, for a
\* keydown whose cues are recorded in ev
SeenNormal(ev) ==
  ev.s[3] = "fat" \/ ev.s[4] = "vim" \/ vimModeClass = "normal"

OnFirstLine == activeView # NoView /\ cursor[activeView].line = 0

\* C2, in every step: a keydown of "k" inside the body editor calls begin()
\* exactly when a cursor cue is present or the tracked mode is normal, and the
\* cursor of the active view is on line 0; the command calls begin() always
ModeGate ==
  /\ IsKeydown(trace', "k", "body") =>
       (Called(trace', "focusTitle") <=>
          (SeenNormal(EventOf(trace')) /\ OnFirstLine))
  /\ EventOf(trace').call = "command" => Called(trace', "focusTitle")

\* C2: from the filter, begin() if and only if (block cursor or cursor layer or
\* tracked mode normal) and cursor line 0; from the command, regardless
C2_ModeGate == [][ModeGate]_vars

\* C2 witness: the filter called begin() on the tracked mode alone, with
\* neither cursor cue present
C2_Witness ==
  /\ IsKeydown(trace, "k", "body")
  /\ EventOf(trace).s[3] = "-"
  /\ EventOf(trace).s[4] = "-"
  /\ Called(trace, "focusTitle")

sessionVars ==
  <<inTitleMode, editedTitle, titleKeyHandler, titleInputHandler,
    currentTitleEl, listeners>>

\* C3, in every step that is a keydown: when a check of the filter fails the
\* filter calls nothing, and unless a title closure took the event the session
\* is as it was; when all pass, the filter prevents the default and stops the
\* propagation before it calls begin(), and the body editor does not get the key
FilterFrame ==
  EventOf(trace').call = "keydown" =>
    LET ev == EventOf(trace')
        pass == /\ ev.s[1] = "k"
                /\ ev.s[2] = "body"
                /\ SeenNormal(ev)
                /\ OnFirstLine
        made == FilterCalls(trace')
    IN /\ ~pass => /\ made = <<"keydown">>
                   /\ ~Called(trace', "titleKeyHandler") =>
                        UNCHANGED sessionVars
       /\ pass => /\ Len(made) >= 4
                  /\ SubSeq(made, 1, 4) =
                       <<"keydown", "preventDefault", "stopPropagation",
                         "focusTitle">>
                  /\ ~Called(trace', "editor.keydown")
                  /\ cursor' = cursor

\* C3: a keydown that fails a check is left untouched by the filter; one that
\* passes them all is suppressed before begin() runs
C3_FilterFrame == [][FilterFrame]_vars

\* C3 witness: a "k" that passed every check: suppressed, begin() called, the
\* title session open, the body editor not reached
C3_Witness ==
  /\ IsKeydown(trace, "k", "body")
  /\ Called(trace, "stopPropagation")
  /\ Called(trace, "focusTitle")
  /\ ~Called(trace, "editor.keydown")
  /\ inTitleMode

\* a terminal key reached a keydown closure of the title
TerminalKey(tr) ==
  /\ EventOf(tr).call = "keydown"
  /\ EventOf(tr).s[1] \in {"Enter", "Escape"}
  /\ Called(tr, "titleKeyHandler")

\* the calls of trace tr among names, in order
RECURSIVE CallsAmong(_, _)
CallsAmong(tr, names) ==
  IF tr = <<>> THEN <<>>
  ELSE IF Head(tr).call \in names
       THEN <<Head(tr).call>> \o CallsAmong(Tail(tr), names)
       ELSE CallsAmong(Tail(tr), names)

\* the next state is what the dispatch w leaves, the key's name apart
SameOutcome(w) ==
  /\ inTitleMode' = w.inTitleMode
  /\ editedTitle' = w.editedTitle
  /\ titleKeyHandler' = w.titleKeyHandler
  /\ titleInputHandler' = w.titleInputHandler
  /\ currentTitleEl' = w.currentTitleEl
  /\ listeners' = w.listeners
  /\ focus' = w.focus
  /\ cursor' = w.cursor
  /\ pending' = w.pending
  /\ Tail(trace') = Tail(w.trace)

\* C4, in every step in which a title closure gets Enter or Escape: the event
\* is suppressed, saveTitleValue is called once, with the editedTitle of the
\* moment, then cleanupTitleHandlers, then returnToEditor, whatever
\* saveTitleValue did; the session is closed; and the other terminal key would
\* have left the same state
TerminalAlike ==
  TerminalKey(trace') =>
    LET key == EventOf(trace').s[1]
        other == IF key = "Enter" THEN "Escape" ELSE "Enter"
    IN /\ CallsAmong(trace', {"preventDefault", "stopPropagation",
                              "saveTitleValue", "cleanupTitleHandlers",
                              "returnToEditor"}) =
            <<"preventDefault", "stopPropagation", "saveTitleValue",
              "cleanupTitleHandlers", "returnToEditor">>
       /\ \A i \in Calls(trace', "saveTitleValue") : trace'[i].s = editedTitle
       /\ ~inTitleMode'
       /\ listeners' = [v \in Views |-> {}]
       /\ SameOutcome(DispatchInTitle(other))

\* C4: Enter and Escape are handled alike: suppress, commit the live value
\* once, tear down, return to the body; Escape never discards the value
C4_TerminalAlike == [][TerminalAlike]_vars

\* C4 witness: Escape in a session whose title was edited to a new name has
\* requested the rename and closed the session
C4_Witness ==
  /\ TerminalKey(trace)
  /\ EventOf(trace).s[1] = "Escape"
  /\ Called(trace, "renameFile")
  /\ ~inTitleMode

\* the path the spec names for title n in the folder of view v
ExpectedPath(v, n) ==
  IF parentPath[v] = <<>> THEN n \o <<".md">>
  ELSE parentPath[v] \o <<"/">> \o n \o <<".md">>

\* C5, in every state that follows Enter in a session on title el, the active
\* view showing a file and the trimmed text n of el being non-empty and not
\* the file's base name: one renameFile call, for the file of the active view
\* and the path <folder>/n.md (n.md when the folder path is empty), which is
\* now awaited; no session, no listener; focus in the body editor, cursor at
\* line 0, column 0
RoundTrip ==
  (TerminalKey(trace) /\ EventOf(trace).s[1] = "Enter") =>
    LET n == Trim(titleText[EventOf(trace).v])
        av == activeView
    IN (av # NoView /\ hasFile[av] /\ n # <<>> /\ n # basename[av]) =>
         /\ Cardinality(Calls(trace, "renameFile")) = 1
         /\ \A i \in Calls(trace, "renameFile") :
              trace[i].v = av /\ trace[i].s = ExpectedPath(av, n)
         /\ \E r \in pending : r.file = av /\ r.path = ExpectedPath(av, n)
         /\ ~inTitleMode
         /\ Attached = {}
         /\ focus = Body(av)
         /\ cursor[av] = [line |-> 0, ch |-> 0]

\* C5: trigger, edit the title to a new name N, Enter: exactly one rename
\* request, for <folder>/N.md or N.md, no session, focus in the body at (0, 0)
C5_RoundTrip == RoundTrip

\* C5 witness: Enter after the title of the file in folder "d" was edited to
\* "b" with blanks around it: d/b.md is requested, the body has the focus
C5_Witness ==
  /\ TerminalKey(trace)
  /\ EventOf(trace).s[1] = "Enter"
  /\ titleText[1] = <<" ", "b", " ">>
  /\ \E i \in Calls(trace, "renameFile") :
       trace[i].s = <<"d", "/", "b", ".md">>
  /\ focus = Body(1)
  /\ cursor[1] = [line |-> 0, ch |-> 0]

\* C6, in every state: a saveTitleValue call whose value, trimmed, is the base
\* name of the active view's file comes with no renameFile call and no notice;
\* and after a terminal key in a session whose title text, trimmed, is that
\* base name, nothing was requested or shown and the session is closed
UnchangedIsSilent ==
  /\ \A i \in Calls(trace, "saveTitleValue") :
       (trace[i].v # NoView /\ hasFile[trace[i].v]
          /\ Trim(trace[i].s) = basename[trace[i].v]) =>
         ~Called(trace, "renameFile") /\ ~Called(trace, "Notice")
  /\ (TerminalKey(trace) /\ activeView # NoView /\ hasFile[activeView]
        /\ Trim(titleText[EventOf(trace).v]) = basename[activeView]) =>
       /\ ~Called(trace, "renameFile")
       /\ ~Called(trace, "Notice")
       /\ ~inTitleMode
       /\ Attached = {}

\* C6: committing the unchanged base name requests no rename and shows no
\* notice, and the terminal key still closes the session
C6_UnchangedIsSilent == UnchangedIsSilent

\* C6 witness: a terminal key with the title text " a" and the base name "a"
C6_Witness ==
  /\ TerminalKey(trace)
  /\ activeView = 1
  /\ hasFile[1]
  /\ titleText[1] = <<" ", "a">>
  /\ basename[1] = <<"a">>
  /\ Called(trace, "saveTitleValue")
  /\ ~inTitleMode

\* a terminal key reached a closure of a session whose title text is blank
BlankCommit(tr) ==
  TerminalKey(tr) /\ Trim(titleText[EventOf(tr).v]) = <<>>

EmptyNotice(tr) ==
  \E i \in Calls(tr, "Notice") : tr[i].s = <<"Title cannot be empty">>

\* C7 as claimed, in every step: a terminal key in a session whose title text
\* is empty or blank shows the notice, requests no rename, leaves the name,
\* closes the session and puts the focus in the body editor
C7_AsClaimed ==
  [][BlankCommit(trace') =>
       /\ EmptyNotice(trace')
       /\ ~Called(trace', "renameFile")
       /\ pending' = pending
       /\ basename' = basename
       /\ ~inTitleMode'
       /\ listeners' = [v \in Views |-> {}]
       /\ focus'.kind = "body"]_vars

\* C7 amended, in every step: such a key requests no rename, leaves the name
\* and closes the session; the notice is shown exactly when the active view
\* shows a file; the focus goes to the body editor of the active view, and
\* stays where it is when no view is active
BlankCommitStep ==
  BlankCommit(trace') =>
    /\ EmptyNotice(trace') <=> (activeView # NoView /\ hasFile[activeView])
    /\ ~Called(trace', "renameFile")
    /\ pending' = pending
    /\ basename' = basename
    /\ ~inTitleMode'
    /\ listeners' = [v \in Views |-> {}]
    /\ focus' = IF activeView # NoView THEN Body(activeView) ELSE focus

\* C7 (amended): a blank title on a terminal key is never renamed to and the
\* session closes; notice and return to the body need an active view (the
\* notice one that shows a file)
C7_BlankCommit == [][BlankCommitStep]_vars

\* C7 witness: Escape on a title cleared to the empty text, with the view
\* active: the notice was shown and the focus is in the body editor
C7_Witness ==
  /\ BlankCommit(trace)
  /\ EventOf(trace).s[1] = "Escape"
  /\ titleText[1] = <<>>
  /\ EmptyNotice(trace)
  /\ ~inTitleMode
  /\ focus = Body(1)

\* the renameFile promise that trace tr reports rejected was r
Rejected(tr, r) ==
  /\ EventOf(tr).call = "renameFile.rejected"
  /\ EventOf(tr).v = r.file
  /\ EventOf(tr).s = r.path

\* C8, in every step in which a renameFile promise is rejected: one notice,
\* "Failed to rename: " followed by the error; the files keep their names and
\* folders; the promise is awaited no longer and no other is; no renameFile
\* call; session fields and listeners as they were, the session that made
\* the request with no listener attached
RejectionStep ==
  EventOf(trace').call = "renameFile.rejected" =>
    /\ Cardinality(Calls(trace', "Notice")) = 1
    /\ \A i \in Calls(trace', "Notice") :
         \E e \in Errors : trace'[i].s = <<"Failed to rename: ">> \o e
    /\ basename' = basename
    /\ parentPath' = parentPath
    /\ ~Called(trace', "renameFile")
    /\ UNCHANGED sessionVars
    /\ \E r \in pending :
         /\ Rejected(trace', r)
         /\ pending' = pending \ {r}
         /\ r.sid \notin AttachedSessions'
         /\ titleKeyHandler'.sid # r.sid

\* C8: a rejected rename is reported with its reason, changes no file, is not
\* retried and neither reopens a session nor attaches a listener
C8_Rejection == [][RejectionStep]_vars

\* C8 witness: a rename was rejected and reported, the file still "a"
C8_Witness ==
  /\ EventOf(trace).call = "renameFile.rejected"
  /\ \E i \in Calls(trace, "Notice") : trace[i].s[1] = "Failed to rename: "
  /\ basename[1] = <<"a">>
  /\ pending = {}
  /\ ~inTitleMode

\* C9, in every state: no awaited rename belongs to a session that still has
\* a listener attached or is the stored one; and right after a handler called
\* renameFile the session is closed and the focus is in the body editor of the
\* active view
RenameAfterTeardown ==
  /\ \A r \in pending :
       /\ r.sid \notin AttachedSessions
       /\ inTitleMode => titleKeyHandler.sid # r.sid
  /\ Called(trace, "renameFile") =>
       /\ ~inTitleMode
       /\ Attached = {}
       /\ activeView # NoView
       /\ focus = Body(activeView)

\* C9: a rename settles only after the session that requested it was torn
\* down and the focus returned to the body editor
C9_RenameAfterTeardown == RenameAfterTeardown

\* C9 witness: the body editor got a key while a rename is awaited
C9_Witness ==
  /\ pending # {}
  /\ Called(trace, "editor.keydown")
  /\ ~inTitleMode

\* a begin() of trace tr found an active view without a title surface
TitleMissing(tr) ==
  \E i \in Calls(tr, "focusTitle") : tr[i].v # NoView /\ ~titlePresent[tr[i].v]

\* C10 as claimed, in every state: after a begin() that found no title surface
\* the notice was shown, no listener is attached and no session is open
C10_AsClaimed ==
  TitleMissing(trace) =>
    /\ \E i \in Calls(trace, "Notice") : trace[i].s[1] =
         "Inline title not found. Enable it in Settings > Editor > Show inline title"
    /\ ~Called(trace, "addEventListener")
    /\ Attached = {}
    /\ ~inTitleMode

\* the session fields and listener lists of w
SessionOf(w) ==
  <<w.inTitleMode, w.editedTitle, w.titleKeyHandler, w.titleInputHandler,
    w.currentTitleEl, w.listeners, w.focus, w.cursor, w.pending>>

\* C11, in every state, for teardown() called now and called once more: the
\* first call leaves no listener on any title, no stored handler or surface
\* and the session closed, and with no session open it changes nothing; the
\* second call removes nothing and leaves the state the first one left
TeardownTwice ==
  LET w1 == cleanupTitleHandlers(Start)
      w2 == cleanupTitleHandlers(w1)
  IN /\ \A v \in Views : w1.listeners[v] = {}
     /\ ~w1.inTitleMode
     /\ w1.titleKeyHandler = NULL
     /\ w1.titleInputHandler = NULL
     /\ w1.currentTitleEl = NoEl
     /\ (~inTitleMode /\ currentTitleEl = NoEl) =>
          /\ SessionOf(w1) = SessionOf(Start)
          /\ ~Called(w1.trace, "removeEventListener")
     /\ SessionOf(w2) = SessionOf(w1)
     /\ Cardinality(Calls(w2.trace, "removeEventListener")) =
          Cardinality(Calls(w1.trace, "removeEventListener"))

\* C11: teardown() is idempotent: with no session open, or called again after
\* it closed a session, it leaves no listener attached and the session closed,
\* and the second call changes nothing
C11_TeardownTwice == TeardownTwice

\* C11 witness: a terminal key has just torn a session down, both listeners
\* removed; the teardown of the next begin() will be the second in a row
C11_Witness ==
  /\ TerminalKey(trace)
  /\ Cardinality(Calls(trace, "removeEventListener")) = 2
  /\ Called(trace, "cleanupTitleHandlers")
  /\ Attached = {}
  /\ ~inTitleMode

\* C12, in every step in which a title closure gets a terminal key:
\* returnToEditor is called once; with an active view the focus is then in
\* that view's body editor and its cursor at line 0, column 0, wherever it
\* was, the other cursors as they were; with no active view focus and cursors
\* are as they were; the session-open flag is false either way
ReturnToBody ==
  TerminalKey(trace') =>
    /\ Cardinality(Calls(trace', "returnToEditor")) = 1
    /\ activeView # NoView =>
         /\ focus' = Body(activeView)
         /\ cursor' = [cursor EXCEPT ![activeView] = [line |-> 0, ch |-> 0]]
    /\ activeView = NoView =>
         /\ focus' = focus
         /\ cursor' = cursor
    /\ ~inTitleMode'

\* C12: Return-to-Body puts the focus in the body editor and the cursor at
\* (0, 0) when a view is active, does nothing when none is, and the session
\* is marked closed once the terminal key is handled
C12_ReturnToBody == [][ReturnToBody]_vars

\* C12 witness: a terminal key was handled with the view active: focus in its
\* body editor, cursor at (0, 0), flag cleared
C12_Witness ==
  /\ TerminalKey(trace)
  /\ Called(trace, "returnToEditor")
  /\ activeView = 1
  /\ focus = Body(1)
  /\ cursor[1] = [line |-> 0, ch |-> 0]
  /\ ~inTitleMode

\* the other case of C12: a terminal key handled with no active view left the
\* focus on the title
C12_WitnessNoView ==
  /\ TerminalKey(trace)
  /\ Called(trace, "returnToEditor")
  /\ activeView = NoView
  /\ focus.kind = "title"
  /\ ~inTitleMode

\* the mode a notification recorded as s carries: its mode string, or the
\* empty value when it has no detail, no mode or an empty mode
Carried(s) ==
  IF s[1] = "detail" /\ s[2] \in Modes \ {""} THEN s[2] ELSE ""

\* C13, in every step: a mode-change notification sets the tracked mode to the
\* mode it carries; every other step leaves the tracked mode as it was
TrackedMode ==
  IF EventOf(trace').call = "vim-mode-change"
  THEN vimModeClass' = Carried(EventOf(trace').s)
  ELSE vimModeClass' = vimModeClass

\* C13: the tracked mode is empty at first, then always the mode of the most
\* recent mode-change notification; key filter, begin, teardown, terminal key,
\* commit and return-to-body leave it alone
C13_TrackedMode == (vimModeClass = "") /\ [][TrackedMode]_vars

\* C13 witness: a session was begun and closed by a terminal key while the
\* tracked mode stayed "insert", the mode of the last notification
C13_Witness ==
  /\ TerminalKey(trace)
  /\ Called(trace, "returnToEditor")
  /\ vimModeClass = "insert"

\* the other case of C13: a notification without a mode reset the tracked mode
C13_WitnessNoMode ==
  /\ EventOf(trace).call = "vim-mode-change"
  /\ EventOf(trace).s = <<"detail", "undefined">>
  /\ vimModeClass = ""

\* C14 as claimed, in every step: a keydown of "j" on the focused title of an
\* open session, its view the active one, puts the focus in the body editor
C14_JReturns ==
  [][(/\ IsKeydown(trace', "j", "title")
      /\ inTitleMode
      /\ currentTitleEl = activeView
      /\ focus = Title(currentTitleEl))
       => focus' = Body(activeView)]_vars

\* C15, in every step that is a keydown of a key other than Enter and Escape
\* on the surface of the open session: nothing is suppressed, no rename is
\* requested or awaited anew, no notice is shown, and flag, surface handle,
\* handlers, listeners and liveValue are as they were
OtherKeyPasses ==
  (/\ EventOf(trace').call = "keydown"
   /\ EventOf(trace').s[2] = "title"
   /\ EventOf(trace').s[1] \notin {"Enter", "Escape"}
   /\ inTitleMode
   /\ EventOf(trace').v = currentTitleEl)
    => /\ Called(trace', "titleKeyHandler")
       /\ ~Called(trace', "preventDefault")
       /\ ~Called(trace', "stopPropagation")
       /\ ~Called(trace', "renameFile")
       /\ ~Called(trace', "Notice")
       /\ pending' = pending
       /\ inTitleMode'
       /\ UNCHANGED sessionVars

\* C15, in every step that begins no session: liveValue changes only by an
\* input event on the surface of the open session, and every such event sets
\* it to the trimmed text the surface then has
LiveValueFollowsInput ==
  LET onSurface == /\ EventOf(trace').call = "input"
                   /\ inTitleMode
                   /\ EventOf(trace').v = currentTitleEl
  IN ~Called(trace', "focusTitle") =>
       /\ editedTitle' # editedTitle => onSurface
       /\ onSurface => editedTitle' = Trim(titleText'[currentTitleEl])

BothAttached ==
  /\ currentTitleEl # NoEl
  /\ titleKeyHandler # NULL
  /\ titleInputHandler # NULL
  /\ Listener("keydown", titleKeyHandler, TRUE) \in listeners[currentTitleEl]
  /\ Listener("input", titleInputHandler, FALSE) \in listeners[currentTitleEl]

\* C16, in every state: the flag is set exactly when a surface is stored,
\* exactly when both handlers are stored and attached to it; listeners are
\* attached exactly when the flag is set; with the flag cleared no handler
\* is stored
FieldsAgree ==
  /\ inTitleMode <=> currentTitleEl # NoEl
  /\ inTitleMode <=> BothAttached
  /\ inTitleMode <=> Attached # {}
  /\ ~inTitleMode => titleKeyHandler = NULL /\ titleInputHandler = NULL

\* C16: flag, surface handle, stored handlers and attached listeners are all
\* set or all clear
C16_FieldsAgree == FieldsAgree

\* C16 witness: an input event found the session open with flag, surface and
\* both listeners in place
C16_Witness ==
  /\ EventOf(trace).call = "input"
  /\ Called(trace, "titleInputHandler")
  /\ inTitleMode
  /\ BothAttached

\* C16, the other side: all clear after a terminal key
C16_WitnessClosed ==
  /\ TerminalKey(trace)
  /\ ~inTitleMode
  /\ currentTitleEl = NoEl
  /\ Attached = {}

\* Under SpecOverlap a session ends only by a terminal key, whose closure
\* hands editedTitle to saveTitleValue (main.ts 121) and which no call clears:
\* with no session open, editedTitle is the value of the most recent commit.
LastCommit == editedTitle

\* C17 as claimed, in every state with no session open and no rename in
\* flight, every rename so far having succeeded: if the most recent commit
\* had a non-empty value, the document's base name is that value
C17_LastCommitWins ==
  (/\ ~inTitleMode
   /\ focus = Body(1)
   /\ pending = {}
   /\ LastCommit # <<>>)
    => basename[1] = LastCommit

\* C18 as claimed, in every state: a rename a keydown closure of a title has
\* just requested is for the file of the view that title belongs to
C18_TargetsOwnView ==
  \A j \in Calls(trace, "titleKeyHandler") :
    \A i \in Calls(trace, "renameFile") :
      j < i => trace[i].v = trace[j].v

\* C19 as claimed, in every state after onunload(): the document keydown
\* filter and the mode-change listener are detached and no title element has
\* a listener of the plugin
C19_AllDetached ==
  lifecycle = "unloaded" =>
    /\ ~keydownRegistered
    /\ ~vimModeRegistered
    /\ Attached = {}
====
